---- MODULE Spec2Model ----
(***************************************************************************)
(* Task Management API (FastAPI + SQLAlchemy): users, bearer-token login   *)
(* and tasks owned by users.  The router (main.py) and the record service  *)
(* (crud.py) are modelled as operators over the two tables; the actions    *)
(* apply them to the store.                                                *)
(*                                                                         *)
(* auth.py and models.py are not part of the sources at hand: token        *)
(* verification, the username uniqueness constraint, id assignment, the    *)
(* column default of Task.completed and the fate of a deleted user's tasks *)
(* follow the written specification and the tests.                         *)
(***************************************************************************)
EXTENDS Integers, FiniteSets, Sequences, TLC

\* ---------------------------------------------------------------- bounds
MaxUsers == 2
MaxTasks == 1
MaxInFlight == 2

UserIds == 1..MaxUsers
TaskIds == 1..MaxTasks
Slots == 1..MaxInFlight

\* ------------------------------------------------------- request domains
Usernames == {"alice", "bob"}
Emails == {"e1", "e2"}
Passwords == {"p1", "p2"}
Titles == {"t1", "t2"}
Descriptions == {"null", "d1"}

EmptyDict == [k \in {} |-> k]

OptField(k, V) == {EmptyDict} \cup {k :> v : v \in V}

\* schemas.UserCreate: is_admin defaults to False and may be supplied.
UserCreate == [username : Usernames, email : Emails, password : Passwords,
               is_admin : BOOLEAN]

\* schemas.UserUpdate after model_dump(exclude_unset=True): the keys the
\* request carried, and only those.
UserUpdate ==
    {e @@ p @@ a : e \in OptField("email", Emails),
                   p \in OptField("password", Passwords),
                   a \in OptField("is_admin", BOOLEAN)}

\* A JSON body sent to POST /tasks/: the two schema fields, and the extra
\* keys a client may add to it.
TaskBody == [title : Titles, description : Descriptions,
             completed : BOOLEAN, owner_id : UserIds]

\* Variant: a schema that also declares completed.
TaskCreate_completed(body) ==
    [title |-> body.title, description |-> body.description,
     completed |-> body.completed]

\* schemas.TaskCreate: the body's title and description; other keys are
\* dropped by the schema.
TaskCreate(body) == [title |-> body.title, description |-> body.description]

\* schemas.TaskUpdate after model_dump(exclude_unset=True).
TaskUpdate ==
    {t @@ d @@ c : t \in OptField("title", Titles),
                   d \in OptField("description", Descriptions),
                   c \in OptField("completed", BOOLEAN)}

\* Bearer tokens: the signed claims {"sub": username}.
Token == [sub : Usernames]

\* What becomes of the tasks of a deleted user.
OnDelete == {"cascade", "orphan"}

VARIABLES
    users,      \* users table: id -> row
    tasks,      \* tasks table: id -> row
    tokens,     \* tokens issued by /login and not yet expired
    stale,      \* tokens of `tokens` issued to a user that was deleted since
    password,   \* history: id -> the password most recently set for the user
    inflight    \* requests between two of their database calls, per worker

vars == <<users, tasks, tokens, stale, password, inflight>>

\* ------------------------------------------------------------ crud.py
get_password_hash(pw) == <<"$2b$", pw>>

verify_password(plain_password, hashed_password) ==
    hashed_password = <<"$2b$", plain_password>>

\* Row lookups return the row's id, or 0 for None.
get_user_by_username(us, username) ==
    IF \E i \in DOMAIN us : us[i].username = username
    THEN CHOOSE i \in DOMAIN us : us[i].username = username
    ELSE 0

get_user(us, user_id) == IF user_id \in DOMAIN us THEN user_id ELSE 0

get_task(ts, task_id) == IF task_id \in DOMAIN ts THEN task_id ELSE 0

Put(table, id, row) ==
    [i \in DOMAIN table \cup {id} |-> IF i = id THEN row ELSE table[i]]

Remove(table, ids) == [i \in DOMAIN table \ ids |-> table[i]]

\* setattr(row, key, value) for every key of update_data.
SetAttrs(row, update_data) ==
    [f \in DOMAIN row |->
        IF f \in DOMAIN update_data THEN update_data[f] ELSE row[f]]

crud_create_user(us, user, id) ==
    Put(us, id, [username |-> user.username,
                 email |-> user.email,
                 is_admin |-> user.is_admin,
                 hashed_password |-> get_password_hash(user.password)])

\* Variant: the password is taken out of the update and its hash is not put
\* in.
UserUpdateData_nohash(user_update) ==
    [k \in DOMAIN user_update \ {"password"} |-> user_update[k]]

UserUpdateData(user_update) ==
    IF "password" \in DOMAIN user_update
    THEN [k \in (DOMAIN user_update \ {"password"}) \cup {"hashed_password"} |->
            IF k = "hashed_password"
            THEN get_password_hash(user_update["password"])
            ELSE user_update[k]]
    ELSE user_update

\* None (0) when the row is absent; the table is then unchanged.
crud_update_user(us, user_id, user_update) ==
    IF get_user(us, user_id) = 0 THEN us
    ELSE Put(us, user_id, SetAttrs(us[user_id], UserUpdateData(user_update)))

\* Variant: the row is returned and the delete is not committed.
crud_delete_user_nocommit(us, user_id) == us

crud_delete_user(us, user_id) ==
    IF get_user(us, user_id) = 0 THEN us ELSE Remove(us, {user_id})

TasksAfterUserDelete(ts, user_id, policy) ==
    IF policy = "cascade"
    THEN Remove(ts, {t \in DOMAIN ts : ts[t].owner_id = user_id})
    ELSE ts

\* models.Task: a column the INSERT is given no value for takes its default.
TaskDefaults == [completed |-> FALSE]

\* models.Task(**task.model_dump(), owner_id=user_id): the keys of the dump
\* and the owner; the other columns take their defaults.
crud_create_task(ts, task, user_id, id) ==
    Put(ts, id, [f \in {"title", "description", "completed", "owner_id"} |->
                    IF f = "owner_id" THEN user_id
                    ELSE IF f \in DOMAIN task THEN task[f]
                    ELSE TaskDefaults[f]])

crud_get_tasks(ts, user_id) == {t \in DOMAIN ts : ts[t].owner_id = user_id}

\* Variant: model_dump() without exclude_unset, so that an omitted title or
\* description is written as null.
crud_update_task_unset(ts, task_id, task_update) ==
    IF get_task(ts, task_id) = 0 THEN ts
    ELSE Put(ts, task_id,
             [f \in DOMAIN ts[task_id] |->
                 IF f \in DOMAIN task_update THEN task_update[f]
                 ELSE IF f \in {"title", "description"} THEN "null"
                 ELSE ts[task_id][f]])

crud_update_task(ts, task_id, task_update) ==
    IF get_task(ts, task_id) = 0 THEN ts
    ELSE Put(ts, task_id, SetAttrs(ts[task_id], task_update))

crud_delete_task(ts, task_id) ==
    IF get_task(ts, task_id) = 0 THEN ts ELSE Remove(ts, {task_id})

\* ------------------------------------------------------------ auth.py
create_access_token(data) == [sub |-> data.sub]

\* The user a bearer token resolves to, as loaded at the start of the
\* request: id 0 stands for the 401 answer (token missing, malformed,
\* expired, or its subject no longer a user).
get_current_user(us, toks, tok) ==
    IF tok \in toks /\ get_user_by_username(us, tok.sub) # 0
    THEN LET i == get_user_by_username(us, tok.sub)
         IN [id |-> i, is_admin |-> us[i].is_admin]
    ELSE [id |-> 0, is_admin |-> FALSE]

\* ------------------------------------------------------------ main.py
\* A handler's outcome: the status code and the tables after the request.
Resp(status, us, ts) == [status |-> status, users |-> us, tasks |-> ts]

\* The unique index on users.username: an INSERT of a second row of the
\* same name fails.
UniqueViolation(us, username) ==
    \E i \in DOMAIN us : us[i].username = username

\* crud.create_user as main.create_user calls it: the IntegrityError of a
\* failed INSERT is caught by neither, and the request ends as a 500.
create_user_insert(us, ts, user, id) ==
    IF UniqueViolation(us, user.username)
    THEN Resp(500, us, ts)
    ELSE Resp(200, crud_create_user(us, user, id), ts)

\* Variant: no pre-check, the INSERT decides.
create_user_nocheck(us, ts, user, id) == create_user_insert(us, ts, user, id)

create_user(us, ts, user, id) ==
    IF get_user_by_username(us, user.username) # 0
    THEN Resp(400, us, ts)
    ELSE create_user_insert(us, ts, user, id)

\* 200 with a token for the user, or 401.
login(us, username, pw) ==
    LET user == get_user_by_username(us, username)
    IN  IF user = 0 \/ ~verify_password(pw, us[user].hashed_password)
        THEN [status |-> 401, issued |-> {}]
        ELSE [status |-> 200,
              issued |-> {create_access_token([sub |-> us[user].username])}]

read_users(us, ts, current_user) ==
    IF ~current_user.is_admin THEN Resp(403, us, ts) ELSE Resp(200, us, ts)

read_user(us, ts, current_user, user_id) ==
    IF ~current_user.is_admin /\ current_user.id # user_id
    THEN Resp(403, us, ts)
    ELSE IF get_user(us, user_id) = 0 THEN Resp(404, us, ts)
    ELSE Resp(200, us, ts)

\* Variant: the row is looked up before the caller's rights are checked.
update_user_lookup_first(us, ts, current_user, user_id, user) ==
    IF get_user(us, user_id) = 0 THEN Resp(404, us, ts)
    ELSE IF ~current_user.is_admin /\ current_user.id # user_id
    THEN Resp(403, us, ts)
    ELSE Resp(200, crud_update_user(us, user_id, user), ts)

update_user(us, ts, current_user, user_id, user) ==
    IF ~current_user.is_admin /\ current_user.id # user_id
    THEN Resp(403, us, ts)
    ELSE IF get_user(us, user_id) = 0 THEN Resp(404, us, ts)
    ELSE Resp(200, crud_update_user(us, user_id, user), ts)

\* Variant: the caller's rights are not checked.
delete_user_unchecked(us, ts, current_user, user_id, policy) ==
    IF get_user(us, user_id) = 0 THEN Resp(404, us, ts)
    ELSE Resp(200, crud_delete_user(us, user_id),
              TasksAfterUserDelete(ts, user_id, policy))

delete_user(us, ts, current_user, user_id, policy) ==
    IF ~current_user.is_admin /\ current_user.id # user_id
    THEN Resp(403, us, ts)
    ELSE IF get_user(us, user_id) = 0 THEN Resp(404, us, ts)
    ELSE Resp(200, crud_delete_user(us, user_id),
              TasksAfterUserDelete(ts, user_id, policy))

create_task(us, ts, current_user, body, id) ==
    Resp(200, us, crud_create_task(ts, TaskCreate(body), current_user.id, id))

read_tasks(us, ts, current_user) == Resp(200, us, ts)

\* Variant: an admin may read any task, as for update and delete.
read_task_admin(us, ts, current_user, task_id) ==
    IF get_task(ts, task_id) = 0 THEN Resp(404, us, ts)
    ELSE IF ~current_user.is_admin /\ ts[task_id].owner_id # current_user.id
    THEN Resp(403, us, ts)
    ELSE Resp(200, us, ts)

read_task(us, ts, current_user, task_id) ==
    IF get_task(ts, task_id) = 0 THEN Resp(404, us, ts)
    ELSE IF ts[task_id].owner_id # current_user.id THEN Resp(403, us, ts)
    ELSE Resp(200, us, ts)

update_task(us, ts, current_user, task_id, task) ==
    IF get_task(ts, task_id) = 0 THEN Resp(404, us, ts)
    ELSE IF ~current_user.is_admin /\ ts[task_id].owner_id # current_user.id
    THEN Resp(403, us, ts)
    ELSE Resp(200, us, crud_update_task(ts, task_id, task))

delete_task(us, ts, current_user, task_id) ==
    IF get_task(ts, task_id) = 0 THEN Resp(404, us, ts)
    ELSE IF ~current_user.is_admin /\ ts[task_id].owner_id # current_user.id
    THEN Resp(403, us, ts)
    ELSE Resp(200, us, crud_delete_task(ts, task_id))

\* Depends(get_current_user): the handler runs only for a resolved caller.
Authed(us, ts, toks, tok, r) ==
    IF get_current_user(us, toks, tok).id = 0 THEN Resp(401, us, ts) ELSE r

\* The id the database gives a new row: one no row of the table holds.
NewIds(table, Ids) == Ids \ DOMAIN table

\* The id of the row an INSERT into users makes; 0 where the INSERT makes
\* no row because the username is taken.
NewUserIds(us, username) ==
    IF get_user_by_username(us, username) = 0
    THEN NewIds(us, UserIds) ELSE {0}

\* ------------------------------------------------------------ requests
\* A worker is idle, or holds a request between two of its database calls:
\* a POST /users/ that has passed the handler's existence pre-check and has
\* not yet run its INSERT (username), a POST /tasks/ whose caller is
\* resolved (id: the caller's), or a PUT or DELETE /tasks/{id} that has
\* passed the handler's checks (id: the task's).  Only what the request has
\* read so far is kept; the rest of the body is drawn where it is used.
Idle == [op |-> "idle", username |-> "", id |-> 0]

Init ==
    /\ users = EmptyDict
    /\ tasks = EmptyDict
    /\ tokens = {}
    /\ stale = {}
    /\ password = EmptyDict
    /\ inflight = [w \in Slots |-> Idle]

\* POST /users/
CreateUser ==
    \E user \in UserCreate :
        \E id \in NewUserIds(users, user.username) :
            LET r == create_user(users, tasks, user, id)
            IN  /\ users' = r.users
                /\ password' = IF r.status = 200
                               THEN Put(password, id, user.password)
                               ELSE password
                /\ UNCHANGED <<tasks, tokens, stale, inflight>>

\* POST /login
Login ==
    \E username \in Usernames, pw \in Passwords :
        LET r == login(users, username, pw)
        IN  /\ tokens' = tokens \cup r.issued
            /\ UNCHANGED <<users, tasks, stale, password, inflight>>

\* GET /users/
ReadUsers ==
    \E tok \in Token :
        LET cu == get_current_user(users, tokens, tok)
            r == Authed(users, tasks, tokens, tok, read_users(users, tasks, cu))
        IN  /\ r.status \in {200, 401, 403, 404}
            /\ UNCHANGED <<users, tasks, tokens, stale, password, inflight>>

\* GET /users/{user_id}
ReadUser ==
    \E tok \in Token, user_id \in UserIds :
        LET cu == get_current_user(users, tokens, tok)
            r == Authed(users, tasks, tokens, tok,
                        read_user(users, tasks, cu, user_id))
        IN  /\ r.status \in {200, 401, 403, 404}
            /\ UNCHANGED <<users, tasks, tokens, stale, password, inflight>>

\* PUT /users/{user_id}
UpdateUser ==
    \E tok \in Token, user_id \in UserIds, user \in UserUpdate :
        LET cu == get_current_user(users, tokens, tok)
            r == Authed(users, tasks, tokens, tok,
                        update_user(users, tasks, cu, user_id, user))
        IN  /\ users' = r.users
            /\ password' = IF r.status = 200 /\ "password" \in DOMAIN user
                           THEN Put(password, user_id, user["password"])
                           ELSE password
            /\ UNCHANGED <<tasks, tokens, stale, inflight>>

\* DELETE /users/{user_id}
DeleteUser ==
    \E tok \in Token, user_id \in UserIds, policy \in OnDelete :
        LET cu == get_current_user(users, tokens, tok)
            r == Authed(users, tasks, tokens, tok,
                        delete_user(users, tasks, cu, user_id, policy))
        IN  /\ users' = r.users
            /\ tasks' = r.tasks
            /\ stale' = IF r.status = 200
                        THEN stale \cup
                             {t \in tokens : t.sub = users[user_id].username}
                        ELSE stale
            /\ password' = IF r.status = 200
                           THEN Remove(password, {user_id})
                           ELSE password
            /\ UNCHANGED <<tokens, inflight>>

\* POST /tasks/
CreateTask ==
    \E tok \in Token, body \in TaskBody, id \in NewIds(tasks, TaskIds) :
        LET cu == get_current_user(users, tokens, tok)
            r == Authed(users, tasks, tokens, tok,
                        create_task(users, tasks, cu, body, id))
        IN  /\ tasks' = r.tasks
            /\ UNCHANGED <<users, tokens, stale, password, inflight>>

\* GET /tasks/
ReadTasks ==
    \E tok \in Token :
        LET cu == get_current_user(users, tokens, tok)
            r == Authed(users, tasks, tokens, tok, read_tasks(users, tasks, cu))
        IN  /\ r.status \in {200, 401, 403, 404}
            /\ UNCHANGED <<users, tasks, tokens, stale, password, inflight>>

\* GET /tasks/{task_id}
ReadTask ==
    \E tok \in Token, task_id \in TaskIds :
        LET cu == get_current_user(users, tokens, tok)
            r == Authed(users, tasks, tokens, tok,
                        read_task(users, tasks, cu, task_id))
        IN  /\ r.status \in {200, 401, 403, 404}
            /\ UNCHANGED <<users, tasks, tokens, stale, password, inflight>>

\* PUT /tasks/{task_id}
UpdateTask ==
    \E tok \in Token, task_id \in TaskIds, task \in TaskUpdate :
        LET cu == get_current_user(users, tokens, tok)
            r == Authed(users, tasks, tokens, tok,
                        update_task(users, tasks, cu, task_id, task))
        IN  /\ tasks' = r.tasks
            /\ UNCHANGED <<users, tokens, stale, password, inflight>>

\* DELETE /tasks/{task_id}
DeleteTask ==
    \E tok \in Token, task_id \in TaskIds :
        LET cu == get_current_user(users, tokens, tok)
            r == Authed(users, tasks, tokens, tok,
                        delete_task(users, tasks, cu, task_id))
        IN  /\ tasks' = r.tasks
            /\ UNCHANGED <<users, tokens, stale, password, inflight>>

\* A token's lifetime (ACCESS_TOKEN_EXPIRE_MINUTES) runs out.
TokenExpires ==
    \E tok \in tokens :
        /\ tokens' = tokens \ {tok}
        /\ stale' = stale \ {tok}
        /\ UNCHANGED <<users, tasks, password, inflight>>

Next ==
    \/ CreateUser
    \/ Login
    \/ ReadUsers
    \/ ReadUser
    \/ UpdateUser
    \/ DeleteUser
    \/ CreateTask
    \/ ReadTasks
    \/ ReadTask
    \/ UpdateTask
    \/ DeleteTask
    \/ TokenExpires

Spec == Init /\ [][Next]_vars

\* ------------------------------------------- concurrent registrations
\* main.create_user up to and including its pre-check (main.py line 21-23):
\* a taken username is answered 400 at once, a free one goes on to the
\* INSERT, which another worker's request may precede.
BeginCreateUser ==
    \E w \in Slots, username \in Usernames :
        /\ inflight[w] = Idle
        /\ get_user_by_username(users, username) = 0
        /\ inflight' = [inflight EXCEPT
                          ![w] = [op |-> "create_user", username |-> username,
                                  id |-> 0]]
        /\ UNCHANGED <<users, tasks, tokens, stale, password>>

\* crud.create_user called from main.create_user (main.py line 24).
CommitCreateUser ==
    \E w \in Slots, user \in UserCreate :
        /\ inflight[w].op = "create_user"
        /\ user.username = inflight[w].username
        /\ \E id \in NewUserIds(users, user.username) :
              LET r == create_user_insert(users, tasks, user, id)
              IN  /\ users' = r.users
                  /\ password' = IF r.status = 200
                                 THEN Put(password, id, user.password)
                                 ELSE password
        /\ inflight' = [inflight EXCEPT ![w] = Idle]
        /\ UNCHANGED <<tasks, tokens, stale>>

NextRegister ==
    \/ BeginCreateUser
    \/ CommitCreateUser
    \/ Login
    \/ UpdateUser
    \/ DeleteUser
    \/ TokenExpires

SpecRegister == Init /\ [][NextRegister]_vars

\* ---------------------------------------------------- concurrent tasks
\* Whether the database checks tasks.owner_id against users on INSERT.
ForeignKeys == {"enforced", "ignored"}

\* crud.create_task as main.create_task calls it, with the id of the caller
\* resolved at the start of the request: the owner is not looked up again.
\* Where the database checks the foreign key, an INSERT for an owner that is
\* gone fails and the request ends as a 500.
create_task_insert(us, ts, user_id, body, id, fk) ==
    IF fk = "enforced" /\ get_user(us, user_id) = 0
    THEN Resp(500, us, ts)
    ELSE create_task(us, ts, [id |-> user_id, is_admin |-> FALSE], body, id)

\* The checks of main.update_task and main.delete_task before their write.
task_write_allowed(ts, current_user, task_id) ==
    /\ get_task(ts, task_id) # 0
    /\ current_user.is_admin \/ ts[task_id].owner_id = current_user.id

\* main.update_task's last line: crud.update_task's result is the response
\* body, and its None for a missing row fails response validation (500).
update_task_write(us, ts, task_id, task) ==
    IF get_task(ts, task_id) = 0 THEN Resp(500, us, ts)
    ELSE Resp(200, us, crud_update_task(ts, task_id, task))

\* main.delete_task's last two lines: crud.delete_task's result is dropped
\* and "Task deleted" is answered.
delete_task_write(us, ts, task_id) ==
    Resp(200, us, crud_delete_task(ts, task_id))

\* POST /tasks/ up to the resolution of the caller.
BeginCreateTask ==
    \E w \in Slots, tok \in Token :
        LET cu == get_current_user(users, tokens, tok)
        IN  /\ inflight[w] = Idle
            /\ cu.id # 0
            /\ inflight' = [inflight EXCEPT
                              ![w] = [op |-> "create_task", username |-> "",
                                      id |-> cu.id]]
            /\ UNCHANGED <<users, tasks, tokens, stale, password>>

\* POST /tasks/ from the call of crud.create_task on.
CommitCreateTask ==
    \E w \in Slots, body \in TaskBody, id \in NewIds(tasks, TaskIds),
       fk \in ForeignKeys :
        /\ inflight[w].op = "create_task"
        /\ tasks' = create_task_insert(users, tasks, inflight[w].id, body,
                                       id, fk).tasks
        /\ inflight' = [inflight EXCEPT ![w] = Idle]
        /\ UNCHANGED <<users, tokens, stale, password>>

\* PUT /tasks/{task_id} up to and including the handler's checks.
BeginUpdateTask ==
    \E w \in Slots, tok \in Token, task_id \in TaskIds :
        LET cu == get_current_user(users, tokens, tok)
        IN  /\ inflight[w] = Idle
            /\ cu.id # 0
            /\ task_write_allowed(tasks, cu, task_id)
            /\ inflight' = [inflight EXCEPT
                              ![w] = [op |-> "update_task", username |-> "",
                                      id |-> task_id]]
            /\ UNCHANGED <<users, tasks, tokens, stale, password>>

\* PUT /tasks/{task_id} from the call of crud.update_task on.
CommitUpdateTask ==
    \E w \in Slots, task \in TaskUpdate :
        /\ inflight[w].op = "update_task"
        /\ tasks' = update_task_write(users, tasks, inflight[w].id, task).tasks
        /\ inflight' = [inflight EXCEPT ![w] = Idle]
        /\ UNCHANGED <<users, tokens, stale, password>>

\* DELETE /tasks/{task_id} up to and including the handler's checks.
BeginDeleteTask ==
    \E w \in Slots, tok \in Token, task_id \in TaskIds :
        LET cu == get_current_user(users, tokens, tok)
        IN  /\ inflight[w] = Idle
            /\ cu.id # 0
            /\ task_write_allowed(tasks, cu, task_id)
            /\ inflight' = [inflight EXCEPT
                              ![w] = [op |-> "delete_task", username |-> "",
                                      id |-> task_id]]
            /\ UNCHANGED <<users, tasks, tokens, stale, password>>

\* DELETE /tasks/{task_id} from the call of crud.delete_task on.
CommitDeleteTask ==
    \E w \in Slots :
        /\ inflight[w].op = "delete_task"
        /\ tasks' = delete_task_write(users, tasks, inflight[w].id).tasks
        /\ inflight' = [inflight EXCEPT ![w] = Idle]
        /\ UNCHANGED <<users, tokens, stale, password>>

\* Task creation against registrations, logins and user deletions.
NextCreateTask ==
    \/ CreateUser
    \/ Login
    \/ DeleteUser
    \/ BeginCreateTask
    \/ CommitCreateTask

SpecCreateTask == Init /\ [][NextCreateTask]_vars

\* Task updates and deletions against each other.
NextTaskWrites ==
    \/ CreateUser
    \/ Login
    \/ CreateTask
    \/ BeginUpdateTask
    \/ CommitUpdateTask
    \/ BeginDeleteTask
    \/ CommitDeleteTask

SpecTaskWrites == Init /\ [][NextTaskWrites]_vars

\* =================================================================
\* Properties.  A handler is a function of the store and the request, so a
\* property of its answers is stated over every request that can be sent
\* in a reachable state.
\* =================================================================

\* The answers of the three /users/{user_id} endpoints to one request.
UserEndpoints(tok, user_id, user, policy) ==
    LET cu == get_current_user(users, tokens, tok)
    IN  {Authed(users, tasks, tokens, tok,
                read_user(users, tasks, cu, user_id)),
         Authed(users, tasks, tokens, tok,
                update_user(users, tasks, cu, user_id, user)),
         Authed(users, tasks, tokens, tok,
                delete_user(users, tasks, cu, user_id, policy))}

\* C1: on GET, PUT and DELETE /users/{id}, an authenticated non-admin caller
\* whose id differs from {id} is answered 403 and both tables stay as they
\* are; the same caller on their own id is answered 200.
C1_UserOwnership ==
    \A tok \in Token, user_id \in UserIds, user \in UserUpdate,
       policy \in OnDelete :
        LET cu == get_current_user(users, tokens, tok)
        IN  (cu.id # 0 /\ ~cu.is_admin) =>
                \A r \in UserEndpoints(tok, user_id, user, policy) :
                    IF cu.id # user_id
                    THEN r.status = 403 /\ r.users = users /\ r.tasks = tasks
                    ELSE r.status = 200

\* A non-admin caller, holding a token, beside another user: refused on the
\* other's id and served on their own.
C1_Witness ==
    \E tok \in tokens, user_id \in DOMAIN users, user \in UserUpdate :
        LET cu == get_current_user(users, tokens, tok)
        IN  /\ cu.id # 0 /\ ~cu.is_admin /\ cu.id # user_id
            /\ \A r \in UserEndpoints(tok, user_id, user, "orphan") :
                   r.status = 403
            /\ \A r \in UserEndpoints(tok, cu.id, user, "orphan") :
                   r.status = 200

\* C2: no request of an unauthenticated or non-admin caller (registration,
\* or PUT /users/{id} on the caller's own id) creates a user with is_admin
\* set or turns a user's is_admin from false to true.
AdminsOf(us) == {i \in DOMAIN us : us[i].is_admin}

C2_NoSelfGrantedAdmin ==
    /\ \A user \in UserCreate, id \in NewIds(users, UserIds) :
           AdminsOf(create_user(users, tasks, user, id).users)
               \subseteq AdminsOf(users)
    /\ \A tok \in Token, user \in UserUpdate :
           LET cu == get_current_user(users, tokens, tok)
           IN  (cu.id # 0 /\ ~cu.is_admin) =>
                   AdminsOf(update_user(users, tasks, cu, cu.id, user).users)
                       \subseteq AdminsOf(users)

\* C3: for an existing task and an authenticated caller: a caller who is not
\* the owner gets 403 on GET /tasks/{id} even as admin, and on PUT and DELETE
\* 200 as admin and 403 otherwise; the owner gets 200 on all three.
C3_TaskAuthorization ==
    \A tok \in Token, task_id \in DOMAIN tasks, task \in TaskUpdate :
        LET cu == get_current_user(users, tokens, tok)
            get == read_task(users, tasks, cu, task_id).status
            put == update_task(users, tasks, cu, task_id, task).status
            del == delete_task(users, tasks, cu, task_id).status
        IN  cu.id # 0 =>
                IF tasks[task_id].owner_id = cu.id
                THEN get = 200 /\ put = 200 /\ del = 200
                ELSE /\ get = 403
                     /\ put = (IF cu.is_admin THEN 200 ELSE 403)
                     /\ del = (IF cu.is_admin THEN 200 ELSE 403)

\* An admin holding a token and a task of another user: the read is refused,
\* the update and the delete are served.
C3_Witness ==
    \E tok \in tokens, task_id \in DOMAIN tasks :
        LET cu == get_current_user(users, tokens, tok)
        IN  /\ cu.id # 0 /\ cu.is_admin
            /\ tasks[task_id].owner_id # cu.id
            /\ tasks[task_id].owner_id \in DOMAIN users
            /\ read_task(users, tasks, cu, task_id).status = 403
            /\ update_task(users, tasks, cu, task_id,
                           "completed" :> TRUE).status = 200
            /\ delete_task(users, tasks, cu, task_id).status = 200

\* Every answer an authenticated endpoint can give to a request that
\* presents `tok`, in the store (us, ts) with the unexpired tokens toks.
AuthedAnswers(us, ts, toks, tok) ==
    LET cu == get_current_user(us, toks, tok)
    IN  {Authed(us, ts, toks, tok, read_users(us, ts, cu)),
         Authed(us, ts, toks, tok, read_tasks(us, ts, cu))}
        \cup {Authed(us, ts, toks, tok, read_user(us, ts, cu, i)) :
                 i \in UserIds}
        \cup {Authed(us, ts, toks, tok, update_user(us, ts, cu, i, u)) :
                 i \in UserIds, u \in UserUpdate}
        \cup {Authed(us, ts, toks, tok, delete_user(us, ts, cu, i, p)) :
                 i \in UserIds, p \in OnDelete}
        \cup {Authed(us, ts, toks, tok, create_task(us, ts, cu, b, i)) :
                 b \in TaskBody, i \in NewIds(ts, TaskIds)}
        \cup {Authed(us, ts, toks, tok, read_task(us, ts, cu, i)) :
                 i \in TaskIds}
        \cup {Authed(us, ts, toks, tok, update_task(us, ts, cu, i, t)) :
                 i \in TaskIds, t \in TaskUpdate}
        \cup {Authed(us, ts, toks, tok, delete_task(us, ts, cu, i)) :
                 i \in TaskIds}

Rejected401(us, ts, toks, tok) ==
    \A r \in AuthedAnswers(us, ts, toks, tok) :
        r.status = 401 /\ r.users = us /\ r.tasks = ts

\* C4 as claimed: once DELETE /users/{id} has succeeded, every later request
\* presenting a token issued to that user before the deletion is answered
\* 401 and changes nothing.
C4_StaleTokenAlways401 ==
    \A tok \in stale : Rejected401(users, tasks, tokens, tok)

\* C4, amended: the request that follows a successful DELETE /users/{id} and
\* presents a token issued to that user is answered 401 and changes nothing,
\* and so is every later one for as long as no user holds the username the
\* token names.
C4_StaleTokenRejected ==
    [][\A tok \in stale' :
          (tok \notin stale \/ get_user_by_username(users', tok.sub) = 0)
              => Rejected401(users', tasks', tokens', tok)]_vars

\* A token outlives its user: it is still unexpired, its user is deleted and
\* the username is free.
C4_Witness ==
    \E tok \in stale :
        /\ tok \in tokens
        /\ get_user_by_username(users, tok.sub) = 0
        /\ users # EmptyDict
        /\ Rejected401(users, tasks, tokens, tok)

\* C5: a request on a task id that names no task is answered 404 whoever the
\* caller is (read, update, delete); a request on a user id that names no
\* user is answered 403 to a non-admin caller and 404 to an admin.
C5_StatusPrecedence ==
    \A tok \in Token :
        LET cu == get_current_user(users, tokens, tok)
        IN  cu.id # 0 =>
              /\ \A task_id \in TaskIds \ DOMAIN tasks, task \in TaskUpdate :
                    /\ read_task(users, tasks, cu, task_id).status = 404
                    /\ update_task(users, tasks, cu, task_id, task).status = 404
                    /\ delete_task(users, tasks, cu, task_id).status = 404
              /\ \A user_id \in UserIds \ DOMAIN users, user \in UserUpdate,
                    policy \in OnDelete :
                    \A r \in UserEndpoints(tok, user_id, user, policy) :
                        r.status = (IF cu.is_admin THEN 404 ELSE 403)

\* A non-admin caller, an id no user holds and an id no task holds.
C5_Witness ==
    \E tok \in tokens, user_id \in UserIds \ DOMAIN users,
       task_id \in TaskIds \ DOMAIN tasks :
        LET cu == get_current_user(users, tokens, tok)
        IN  /\ cu.id # 0 /\ ~cu.is_admin
            /\ update_user(users, tasks, cu, user_id,
                           "email" :> "e2").status = 403
            /\ update_task(users, tasks, cu, task_id,
                           "completed" :> TRUE).status = 404

\* C6: no two users share a username; POST /users/ with a free username is
\* answered 200 and adds exactly one user, with a taken one it is answered
\* 400 and the users table stays as it is.
C6_UniqueUsername ==
    /\ \A i, j \in DOMAIN users :
           users[i].username = users[j].username => i = j
    /\ \A user \in UserCreate :
           IF \E i \in DOMAIN users : users[i].username = user.username
           THEN \A id \in UserIds \cup {0} :
                    LET r == create_user(users, tasks, user, id)
                    IN  r.status = 400 /\ r.users = users
           ELSE \A id \in NewIds(users, UserIds) :
                    LET r == create_user(users, tasks, user, id)
                    IN  /\ r.status = 200
                        /\ DOMAIN r.users = DOMAIN users \cup {id}
                        /\ r.users[id].username = user.username
                        /\ \A i \in DOMAIN users : r.users[i] = users[i]

\* Two users are registered, and a further registration under one of their
\* names is refused.
C6_Witness ==
    /\ Cardinality(DOMAIN users) = 2
    /\ \E user \in UserCreate :
           /\ \E i \in DOMAIN users : users[i].username = user.username
           /\ create_user(users, tasks, user, 0).status = 400

\* C7: when two POST /users/ for one username have both passed the
\* pre-check, the second INSERT is answered as the conflict (400), never as
\* an unhandled fault: a registration past its pre-check ends in 200 with
\* its user created, or in 400 with the username held by exactly one user.
C7_RaceAnsweredAsConflict ==
    \A w \in Slots :
        inflight[w].op = "create_user" =>
            \A user \in UserCreate :
              \A id \in NewUserIds(users, user.username) :
                user.username = inflight[w].username =>
                    LET r == create_user_insert(users, tasks, user, id)
                        held == {i \in DOMAIN r.users :
                                    r.users[i].username = user.username}
                    IN  /\ r.status \in {200, 400}
                        /\ Cardinality(held) = 1
                        /\ r.status = 200 => id # 0 /\ held = {id}

\* The fields of a row that differ between two versions of it.
Changed(old, new) == {f \in DOMAIN old : new[f] # old[f]}

\* C8: a successful PUT /users/{id} or PUT /tasks/{id} sets the fields whose
\* keys the payload carries (the password as its hash) and leaves every
\* other field of the row, every other row and the other table as they were.
C8_PartialUpdate ==
    \A tok \in Token :
        LET cu == get_current_user(users, tokens, tok)
        IN  /\ \A user_id \in UserIds, user \in UserUpdate :
                   LET r == Authed(users, tasks, tokens, tok,
                                   update_user(users, tasks, cu, user_id, user))
                       keys == (DOMAIN user \ {"password"}) \cup
                               (IF "password" \in DOMAIN user
                                THEN {"hashed_password"} ELSE {})
                   IN  r.status = 200 =>
                         /\ DOMAIN r.users = DOMAIN users
                         /\ \A i \in DOMAIN users \ {user_id} :
                                r.users[i] = users[i]
                         /\ Changed(users[user_id], r.users[user_id])
                                \subseteq keys
                         /\ \A k \in DOMAIN user \ {"password"} :
                                r.users[user_id][k] = user[k]
                         /\ "password" \in DOMAIN user =>
                              /\ r.users[user_id].hashed_password
                                     = get_password_hash(user["password"])
                              /\ verify_password(user["password"],
                                     r.users[user_id].hashed_password)
                         /\ r.tasks = tasks
            /\ \A task_id \in TaskIds, task \in TaskUpdate :
                   LET r == Authed(users, tasks, tokens, tok,
                                   update_task(users, tasks, cu, task_id, task))
                   IN  r.status = 200 =>
                         /\ DOMAIN r.tasks = DOMAIN tasks
                         /\ \A i \in DOMAIN tasks \ {task_id} :
                                r.tasks[i] = tasks[i]
                         /\ Changed(tasks[task_id], r.tasks[task_id])
                                \subseteq DOMAIN task
                         /\ \A k \in DOMAIN task : r.tasks[task_id][k] = task[k]
                         /\ r.users = users

\* The owner of an open task with a description sends {completed: true}:
\* the task is completed, its title and description are as before.
C8_Witness ==
    \E tok \in tokens, task_id \in DOMAIN tasks :
        LET cu == get_current_user(users, tokens, tok)
            r == update_task(users, tasks, cu, task_id, "completed" :> TRUE)
        IN  /\ cu.id # 0
            /\ ~tasks[task_id].completed
            /\ tasks[task_id].description = "d1"
            /\ r.status = 200
            /\ r.tasks[task_id] = [tasks[task_id] EXCEPT !.completed = TRUE]

\* C9: a task created by POST /tasks/ is open and owned by the caller
\* whatever the body says, and no PUT /tasks/{id} or PUT /users/{id}, by
\* owner or admin, changes the owner_id of an existing task.
C9_OwnerFixed ==
    \A tok \in Token :
        LET cu == get_current_user(users, tokens, tok)
        IN  /\ \A body \in TaskBody, id \in NewIds(tasks, TaskIds) :
                   LET r == Authed(users, tasks, tokens, tok,
                                   create_task(users, tasks, cu, body, id))
                   IN  cu.id # 0 =>
                         /\ r.status = 200
                         /\ r.tasks[id].completed = FALSE
                         /\ r.tasks[id].owner_id = cu.id
            /\ \A r \in {Authed(users, tasks, tokens, tok,
                                update_task(users, tasks, cu, i, t)) :
                            i \in TaskIds, t \in TaskUpdate}
                        \cup
                        {Authed(users, tasks, tokens, tok,
                                update_user(users, tasks, cu, i, u)) :
                            i \in UserIds, u \in UserUpdate} :
                   \A t \in DOMAIN tasks :
                       /\ t \in DOMAIN r.tasks
                       /\ r.tasks[t].owner_id = tasks[t].owner_id

\* A task exists that an admin other than its owner may update, and whose
\* owner is the user who created it.
C9_Witness ==
    \E tok \in tokens, task_id \in DOMAIN tasks :
        LET cu == get_current_user(users, tokens, tok)
            r == update_task(users, tasks, cu, task_id, "title" :> "t2")
        IN  /\ cu.id # 0 /\ cu.is_admin
            /\ tasks[task_id].owner_id \in DOMAIN users \ {cu.id}
            /\ tasks[task_id].title = "t1"
            /\ r.status = 200
            /\ r.tasks[task_id].title = "t2"
            /\ r.tasks[task_id].owner_id = tasks[task_id].owner_id

\* C10: POST /login is answered 200 with a token naming the user exactly
\* when the username names a user and the password is the one most
\* recently set for that user; in every other case it is answered 401.
C10_LoginLatestPassword ==
    /\ DOMAIN password = DOMAIN users
    /\ \A username \in Usernames, pw \in Passwords :
           LET r == login(users, username, pw)
           IN  IF \E i \in DOMAIN users :
                     users[i].username = username /\ password[i] = pw
               THEN r.status = 200 /\ r.issued = {[sub |-> username]}
               ELSE r.status = 401 /\ r.issued = {}

\* A user whose password is p2: p2 logs in, p1 does not, and neither does a
\* username that is not registered.
C10_Witness ==
    \E i \in DOMAIN users, other \in Usernames :
        /\ password[i] = "p2"
        /\ login(users, users[i].username, "p2").status = 200
        /\ login(users, users[i].username, "p1").status = 401
        /\ get_user_by_username(users, other) = 0
        /\ login(users, other, "p2").status = 401

\* C11: at the moment POST /tasks/ inserts the task row, its owner_id names
\* a user of the users table, also when a DELETE /users/{caller id} comes
\* between the resolution of the caller's token and the INSERT.
C11_OwnerExistsAtInsert ==
    \A w \in Slots :
        inflight[w].op = "create_task" =>
            \A body \in TaskBody, id \in NewIds(tasks, TaskIds),
               fk \in ForeignKeys :
                LET r == create_task_insert(users, tasks, inflight[w].id,
                                            body, id, fk)
                IN  id \in DOMAIN r.tasks =>
                        r.tasks[id].owner_id \in DOMAIN users

\* C12: a PUT or DELETE /tasks/{id} that passed the handler's checks and
\* whose task another request has deleted before its write is answered 404,
\* never 200.
C12_LateWriteAnswered404 ==
    \A w \in Slots :
        /\ (inflight[w].op = "update_task"
               /\ get_task(tasks, inflight[w].id) = 0) =>
              \A task \in TaskUpdate :
                  update_task_write(users, tasks, inflight[w].id,
                                    task).status = 404
        /\ (inflight[w].op = "delete_task"
               /\ get_task(tasks, inflight[w].id) = 0) =>
              delete_task_write(users, tasks, inflight[w].id).status = 404

====
